---- MODULE Spec2Model ----
(***************************************************************************)
(* AnalysisRepository (app/repositories/analysis_repo.py): the result      *)
(* cache over the literature_analyses table, the writers of math_steps and *)
(* logic_tree_nodes, the patcher of math_steps and the debug_sessions log. *)
(*                                                                         *)
(* Every caller owns one AsyncSession, i.e. one transaction, and the store *)
(* runs at read-committed isolation: a SELECT reads the rows committed at  *)
(* the moment it executes, and db.commit() flushes the session's pending   *)
(* UPDATEs and INSERTs and commits them as one atomic step.  One action of *)
(* the model is one statement sent to the store (a SELECT, or a flush and  *)
(* COMMIT), so that callers interleave between the statements of a call.   *)
(* db.refresh() after a commit is folded into the commit step: it only     *)
(* reloads the returned objects.  A caller is one session, as get_db hands *)
(* one out per request: a commit or a rollback leaves nothing unflushed in *)
(* it, and what a call that raised without either leaves behind stays in   *)
(* the session for the caller's next call.  Objects the session has only   *)
(* read are not kept.                                                      *)
(* get_db (app/database/connection.py) is modelled from its yield on: the   *)
(* consumer returns or raises, then get_db commits or rolls back, and      *)
(* closes.                                                                 *)
(*                                                                         *)
(* The table's uniqueness constraint is declared in app/database/models,   *)
(* and is taken here as the data model states it: the business key is      *)
(* unique among the rows that have not expired.                            *)
(*                                                                         *)
(* Time is counted in hours: the clock `now` is datetime.utcnow().         *)
(***************************************************************************)
EXTENDS Integers, Sequences, FiniteSets, TLC

\* ---------------------------------------------------------------- bounds
MaxCalls == 3        \* requests the callers make in all: one per call, one per entry or item of a list
MaxTime == 1         \* the clock runs from 0 to MaxTime hours
NumRacers == 3       \* N of the race specification: N concurrent saves

\* ------------------------------------------------------------- constants
TTL == 1             \* timedelta(hours=1)
Null == -1           \* expires_at IS NULL

Callers == {1, 2}     \* the concurrent callers of the general specification
Racers == 1..NumRacers

\* Business keys <<session_id, analysis_type, content_hash>> the callers use:
\* in the general specification, in the race and in the lookup specification.
Keys == { <<"s1", "grammar", "h1">>, <<"s2", "grammar", "h1">> }
RaceKeys == { <<"s1", "grammar", "h1">>, <<"s1", "grammar", "h2">> }
LookupKeys == { <<"s1", "grammar", "h1">>, <<"s1", "grammar", "h2">>,
                <<"s2", "grammar", "h1">>, <<"s1", "style", "h1">> }
SessionIds == {"s1", "s2"}

\* The remaining arguments of a save (processing_time_ms and tokens_used
\* travel with model_used and are stored the same way).
Payload1 == [content_version |-> 1, results |-> "r1", model_used |-> "m1"]
Payload2 == [content_version |-> 2, results |-> "r2", model_used |-> "m2"]
Payloads == {Payload1, Payload2}

\* Entry lists handed to batch_create_literature_analyses.
BatchEntries == [key : Keys, p : {Payload2}]
BatchLists == UNION { [1..n -> BatchEntries] : n \in 1..MaxCalls }

\* One session on which calls follow one another.
Session == {1}

\* Arguments of get_literature_analysis_list: "" is no analysis_type.
ListTypes == {"", "grammar", "style"}
ListLimits == {1, 2}

\* A field the dict of an entry does not have.
Absent == "(absent)"

\* Entries that lack a required field: the content_hash, or the results.
MalformedEntries ==
    { [key |-> <<"s1", "grammar", Absent>>, p |-> Payload2],
      [key |-> <<"s1", "grammar", "h1">>, p |-> [Payload2 EXCEPT !.results = Absent]] }
SoloBatchLists == UNION { [1..n -> BatchEntries \cup MalformedEntries] : n \in 1..MaxCalls }

\* Items handed to save_math_steps, and updates handed to
\* batch_update_math_steps: of a stored step, of none, without step_id.
Item1 == [step_order |-> 1, step_content |-> "c1"]
Update1 == [step_id |-> 1, step_content |-> "c2"]
UpdateNone == [step_id |-> 9, step_content |-> "c2"]
UpdateNoId == [step_content |-> "c3"]
SoloPatchLists == UNION { [1..n -> {Update1, UpdateNoId}] : n \in 1..MaxCalls }

\* Lists of a session that uses every table: well-formed ones, and ones
\* whose second element is not a dict.
Node1 == [node_id |-> "n1", level |-> 1, depends_on |-> <<"n2">>]
NotADict == [not_a_dict |-> TRUE]
SessionStepLists == { << Item1 >>, << Item1, NotADict >> }
SessionNodeLists == { << Node1 >>, << Node1, NotADict >> }
SessionPatchLists == { << Update1 >>, << Update1, UpdateNoId >> }

\* Scopes, order keys and patches of the steps.  An item without step_order
\* gets the default; a patch names a stored step or none, and a column the
\* caller may patch, one it may not, or no column.
Versions == {0, 1}
StepItems == { [step_order |-> 1, step_content |-> "c1"],
               [step_order |-> 3, step_content |-> "c1"],
               [step_content |-> "c1"] }
StepLists == UNION { [1..n -> StepItems] : n \in 1..MaxCalls }
StepPatches == { Update1, UpdateNone,
                 [step_id |-> 1, step_order |-> 5],
                 [step_id |-> 2, step_content |-> "c2"],
                 [step_id |-> 1, session_id |-> "s2"],
                 [step_id |-> 1, content_version |-> 7],
                 [step_id |-> 1, bogus |-> "x"] }
\* Update lists a caller hands over and, after the call, hands over again:
\* entries that name a stored step, no stored step, or lack the step_id.
RetryLists == UNION { [1..n -> {Update1, UpdateNone, UpdateNoId}] : n \in 1..(MaxCalls - 1) }

\* What a consumer of get_db raises at the yield: an Exception, or a
\* BaseException that is none (asyncio.CancelledError); and what a commit
\* raises when the store refuses it.
Thrown == {"AttributeError", "CancelledError"}
CommitError == "DBAPIError"

\* Nodes handed to save_logic_tree_nodes: two of one level that depend on
\* each other, one of them required by a node nobody saves; one of a higher
\* level; one with neither level nor lists.  NoneList is None where a list
\* is expected.
NoneList == << "(None)" >>
NodeItems == { [node_id |-> "n1", level |-> 1, depends_on |-> <<"n2">>, required_by |-> <<"n2">>],
               [node_id |-> "n2", level |-> 1, depends_on |-> <<"n1">>, required_by |-> <<"n9">>],
               [node_id |-> "n3", level |-> 2, depends_on |-> <<>>, required_by |-> <<>>],
               [node_id |-> "n4"] }
NodeLists == UNION { [1..n -> NodeItems] : n \in 1..(MaxCalls - 1) }

\* A patch follows a save of at least one item, which leaves it MaxCalls - 1
\* entries.
PatchLists == UNION { [1..n -> StepPatches] : n \in 1..(MaxCalls - 1) }

VARIABLES
    store,     \* committed rows of literature_analyses
    steps,     \* committed rows of math_steps
    nodes,     \* committed rows of logic_tree_nodes
    snaps,     \* committed rows of debug_sessions
    nextId,    \* the id sequence of literature_analyses
    nextRowId, \* the id sequences of the other three tables
    now,       \* datetime.utcnow()
    pc,        \* per caller: where its current call stands
    req,       \* per caller: the key its current or last call was given
    idmap,     \* per caller: persistent objects loaded in its session, as modified in memory
    added,     \* per caller: objects passed to db.add(), not yet flushed
    out,       \* per caller: the objects the call will return, in order
    todo,      \* per caller: entries of a batch not yet looked up
    args,      \* per caller: the list its current or last batch call was given
    pending,   \* per caller: objects of the other tables added or patched in its session, not yet flushed
    ret,       \* per caller: what its last call returned or raised
    left,      \* calls the callers may still start
    nLookup,   \* per caller: lookups made by the current call
    nInsert,   \* per caller: insert attempts made by the current call
    db         \* per caller: where the get_db that handed out its session stands

vars == <<store, steps, nodes, snaps, nextId, nextRowId, now, pc, req, idmap, added, out,
          todo, args, pending, ret, left, nLookup, nInsert, db>>

\* ------------------------------------------------------------------ rows
KeyOf(r) == <<r.session_id, r.analysis_type, r.content_hash>>

\* The default of the created_at column: the time at which the object is
\* constructed.
CreatedAt(t) == t

\* Variant: the expiry is left out, as in the batch path.
NewAnalysisNoExpiry(key, p, t) ==
    [id |-> 0, session_id |-> key[1], analysis_type |-> key[2], content_hash |-> key[3],
     content_version |-> p.content_version, results |-> p.results,
     model_used |-> p.model_used, cache_hit_count |-> 0, expires_at |-> Null, created_at |-> CreatedAt(t)]

\* LiteratureAnalysis(...) as save_literature_analysis builds it.
NewAnalysis(key, p, t) ==
    [id |-> 0, session_id |-> key[1], analysis_type |-> key[2], content_hash |-> key[3],
     content_version |-> p.content_version, results |-> p.results,
     model_used |-> p.model_used, cache_hit_count |-> 0, expires_at |-> t + TTL, created_at |-> CreatedAt(t)]

\* LiteratureAnalysis(...) as batch_create_literature_analyses builds it:
\* expires_at is not passed and stays NULL.
NewBatchAnalysis(key, p, t) ==
    [id |-> 0, session_id |-> key[1], analysis_type |-> key[2], content_hash |-> key[3],
     content_version |-> p.content_version, results |-> p.results,
     model_used |-> p.model_used, cache_hit_count |-> 0, expires_at |-> Null, created_at |-> CreatedAt(t)]

\* Variant: a row still counts at the instant it expires.
NotExpiredInclusive(r, t) == r.expires_at = Null \/ r.expires_at >= t

\* or_(expires_at.is_(None), expires_at > datetime.utcnow())
NotExpired(r, t) == r.expires_at = Null \/ r.expires_at > t

\* Variant: the WHERE clause without the expiry condition.
MatchingAnyAge(rows, key, t) ==
    { r \in rows : /\ r.session_id = key[1]
                   /\ r.analysis_type = key[2]
                   /\ r.content_hash = key[3] }

\* The WHERE clause of get_literature_analysis_by_hash.
Matching(rows, key, t) ==
    { r \in rows : /\ r.session_id = key[1]
                   /\ r.analysis_type = key[2]
                   /\ r.content_hash = key[3]
                   /\ NotExpired(r, t) }

\* ----------------------------------------------------------- the session
\* Variant: the hit is not counted.
HitUncounted(o) == o

\* existing.cache_hit_count += 1 on the in-memory object.
Hit(o) == [o EXCEPT !.cache_hit_count = o.cache_hit_count + 1]

\* The object of the identity map for a row the SELECT returned: the object
\* already loaded in this session if there is one, else the row as read.
Loaded(idm, r) == IF \E o \in idm : o.id = r.id THEN CHOOSE o \in idm : o.id = r.id ELSE r

\* The session after `existing.cache_hit_count += 1` on row r.
WithHit(idm, r) == { o \in idm : o.id # r.id } \cup { Hit(Loaded(idm, r)) }

\* Variant: the table has no uniqueness constraint.
NoUniqueCheck(rows, news, t) == FALSE

\* The uniqueness constraint of the table on the business key, among the
\* rows that have not expired: does inserting `news` at time t violate it?
UniqueViolation(rows, news, t) ==
    \E i \in 1..Len(news) :
        \/ \E r \in rows : KeyOf(r) = KeyOf(news[i]) /\ (r.expires_at = Null \/ r.expires_at > t)
        \/ \E j \in 1..Len(news) : j # i /\ KeyOf(news[j]) = KeyOf(news[i])

\* An UPDATE ... WHERE id = o.id that matches no row (StaleDataError).
Stale(rows, idm) == \E o \in idm : ~ \E r \in rows : r.id = o.id

\* Variant: an insert replaces the stored rows of its key.
CommittedReplacing(rows, idm, news, first) ==
    { IF \E o \in idm : o.id = r.id
        THEN [r EXCEPT !.cache_hit_count = (CHOOSE o \in idm : o.id = r.id).cache_hit_count]
        ELSE r : r \in { x \in rows : \A i \in 1..Len(news) : KeyOf(x) # KeyOf(news[i]) } }
    \cup { [news[i] EXCEPT !.id = first + i - 1] : i \in 1..Len(news) }

\* The store after the flush and COMMIT of a session: one UPDATE of
\* cache_hit_count per modified object, one INSERT per added object.
Committed(rows, idm, news, first) ==
    { IF \E o \in idm : o.id = r.id
        THEN [r EXCEPT !.cache_hit_count = (CHOOSE o \in idm : o.id = r.id).cache_hit_count]
        ELSE r : r \in rows }
    \cup { [news[i] EXCEPT !.id = first + i - 1] : i \in 1..Len(news) }

\* db.refresh(obj) for every returned object, after the commit.
Refreshed(rows, refs, first) ==
    [i \in 1..Len(refs) |->
        LET rid == IF refs[i][1] = "new" THEN first + refs[i][2] - 1 ELSE refs[i][2]
        IN  CHOOSE r \in rows : r.id = rid]

\* ------------------------------------------- the session's other objects
\* What a session holds for the other tables: objects passed to db.add()
\* (steps, nodes, snaps, in the order added) and loaded steps that were
\* modified in memory (patched).
NothingPending == [steps |-> <<>>, nodes |-> <<>>, snaps |-> <<>>, patched |-> {}]

\* The rows an INSERT of the objects `news` writes, ids taken from `first` on.
Numbered(news, first) == { [news[i] EXCEPT !.id = first + i - 1] : i \in 1..Len(news) }

\* Variant: an INSERT takes the place of the stored rows of its session.
Upserted(rows, news, first) ==
    { r \in rows : \A i \in 1..Len(news) : news[i].session_id # r.session_id }
    \cup Numbered(news, first)

\* A table after the INSERTs of a flush.
Inserted(rows, news, first) == rows \cup Numbered(news, first)

\* The flush and COMMIT of what session c holds in `pend` for the other
\* tables: one UPDATE per patched step, one INSERT per added object.
FlushOf(c, pend) ==
    /\ steps' = { IF \E o \in pend.patched : o.id = r.id
                    THEN CHOOSE o \in pend.patched : o.id = r.id
                    ELSE r : r \in Inserted(steps, pend.steps, nextRowId.math_steps) }
    /\ nodes' = Inserted(nodes, pend.nodes, nextRowId.logic_tree_nodes)
    /\ snaps' = Inserted(snaps, pend.snaps, nextRowId.debug_sessions)
    /\ nextRowId' = [math_steps |-> nextRowId.math_steps + Len(pend.steps),
                     logic_tree_nodes |-> nextRowId.logic_tree_nodes + Len(pend.nodes),
                     debug_sessions |-> nextRowId.debug_sessions + Len(pend.snaps)]
    /\ pending' = [pending EXCEPT ![c] = NothingPending]

\* db.commit() as far as the other tables go: whatever the session holds
\* is flushed, whichever call added it.
Flush(c) == FlushOf(c, pending[c])

\* db.rollback(), or the rollback a failed commit does: pending objects are
\* expunged, modified ones expired.
Discard(c) ==
    /\ pending' = [pending EXCEPT ![c] = NothingPending]
    /\ UNCHANGED <<steps, nodes, snaps, nextRowId>>

\* A statement that neither flushes nor rolls back (autoflush is off).
NoFlush == UNCHANGED <<steps, nodes, snaps, nextRowId, pending>>

\* --------------------------------------------------------------- results
\* What a call returned or raised, and when.
NoResult == [op |-> "", kind |-> "none", objs |-> <<>>, err |-> "", count |-> 0, at |-> 0]
Returned(op, objs, t) == [op |-> op, kind |-> "objs", objs |-> objs, err |-> "", count |-> 0, at |-> t]
Raised(op, e, t) == [op |-> op, kind |-> "raised", objs |-> <<>>, err |-> e, count |-> 0, at |-> t]
Count(op, n, t) == [op |-> op, kind |-> "count", objs |-> <<>>, err |-> "", count |-> n, at |-> t]

NoKey == <<"", "", "">>

\* The call of caller c ends: its local variables are gone.
Finish(c, result) ==
    /\ pc' = [pc EXCEPT ![c] = "idle"]
    /\ ret' = [ret EXCEPT ![c] = result]
    /\ idmap' = [idmap EXCEPT ![c] = {}]
    /\ added' = [added EXCEPT ![c] = <<>>]
    /\ out' = [out EXCEPT ![c] = <<>>]
    /\ todo' = [todo EXCEPT ![c] = <<>>]

\* Caller c starts a call that makes n requests.
Begin(c, key, n) ==
    /\ pc[c] = "idle"
    /\ left >= n
    /\ left' = left - n
    /\ req' = [req EXCEPT ![c] = key]

\* ----------------------------------------------------------------- get_db
\* get_db at its yield: the session is in the consumer's hands.  `exc` is
\* the exception in flight, `log` what the consumer and get_db did.
Yielded == [at |-> "yield", exc |-> "", log |-> <<>>]
AtYield(c) == db[c].at = "yield"

\* Variant: a bare except, which catches every BaseException.
AfterTryBare(e) == IF e = "" THEN "finally" ELSE "except"

\* Where control goes when the try block is left with exception e, "" for
\* none: `except Exception` does not catch a CancelledError.
AfterTry(e) == IF e = "" \/ e = "CancelledError" THEN "finally" ELSE "except"

\* get_db moves on.
Moved(c, at, e, event) ==
    db' = [db EXCEPT ![c] = [at |-> at, exc |-> e, log |-> Append(db[c].log, event)]]

\* The consumer finishes: get_db resumes after the yield.
ConsumerReturns(c) ==
    /\ pc[c] = "idle"
    /\ AtYield(c)
    /\ Moved(c, "commit", "", "returned")
    /\ NoFlush
    /\ UNCHANGED <<store, nextId, now, pc, req, idmap, added, out, todo, args, ret, left,
                   nLookup, nInsert>>

\* The consumer raises e: it is thrown into get_db at the yield.
ConsumerRaises(c, e) ==
    /\ pc[c] = "idle"
    /\ AtYield(c)
    /\ Moved(c, AfterTry(e), e, "raised")
    /\ NoFlush
    /\ UNCHANGED <<store, nextId, now, pc, req, idmap, added, out, todo, args, ret, left,
                   nLookup, nInsert>>

\* await session.commit(): what is unflushed in the session is written.
DbCommit(c) ==
    /\ db[c].at = "commit"
    /\ Moved(c, AfterTry(""), "", "commit")
    /\ Flush(c)
    /\ UNCHANGED <<store, nextId, now, pc, req, idmap, added, out, todo, args, ret, left,
                   nLookup, nInsert>>

\* await session.commit() raises: the store refuses the flush or the COMMIT.
DbCommitFails(c) ==
    /\ db[c].at = "commit"
    /\ Moved(c, AfterTry(CommitError), CommitError, "commit failed")
    /\ NoFlush
    /\ UNCHANGED <<store, nextId, now, pc, req, idmap, added, out, todo, args, ret, left,
                   nLookup, nInsert>>

\* except Exception: await session.rollback(); raise
DbRollback(c) ==
    /\ db[c].at = "except"
    /\ Moved(c, "finally", db[c].exc, "rollback")
    /\ Discard(c)
    /\ UNCHANGED <<store, nextId, now, pc, req, idmap, added, out, todo, args, ret, left,
                   nLookup, nInsert>>

\* finally: await session.close(), which ends a transaction still open;
\* then the exception in flight, if any, leaves get_db.
DbClose(c) ==
    /\ db[c].at = "finally"
    /\ Moved(c, "done", db[c].exc, "close")
    /\ Discard(c)
    /\ UNCHANGED <<store, nextId, now, pc, req, idmap, added, out, todo, args, ret, left,
                   nLookup, nInsert>>

\* ------------------------------------------------ save_literature_analysis
\* After the first lookup: "hit" when a row was found, else "insert".
AfterLookup(found) == IF found # {} THEN "hit" ELSE "insert"

\* The call's first statement: the lookup, then either the in-memory
\* increment or the construction of the new row and db.add().
SaveLookup(c, key, p) ==
    /\ Begin(c, key, 1)
    /\ nLookup' = [nLookup EXCEPT ![c] = 1]
    /\ nInsert' = [nInsert EXCEPT ![c] = 0]
    /\ LET found == Matching(store, key, now) IN
        IF Cardinality(found) > 1
        THEN /\ Finish(c, Raised("save", "MultipleResultsFound", now))
        ELSE /\ pc' = [pc EXCEPT ![c] = AfterLookup(found)]
             /\ ret' = [ret EXCEPT ![c] = NoResult]
             /\ todo' = todo
             /\ IF found # {}
                THEN LET r == CHOOSE r \in found : TRUE IN
                     /\ idmap' = [idmap EXCEPT ![c] = WithHit({}, r)]
                     /\ out' = [out EXCEPT ![c] = << <<"old", r.id>> >>]
                     /\ added' = added
                ELSE /\ added' = [added EXCEPT ![c] = << NewAnalysis(key, p, now) >>]
                     /\ out' = [out EXCEPT ![c] = << <<"new", 1>> >>]
                     /\ idmap' = idmap
    /\ NoFlush
    /\ UNCHANGED <<store, nextId, now, db, args>>

\* db.commit() and db.refresh(existing) of a hit, the first one or the one
\* after a conflict.  Nothing catches the error of an UPDATE that finds its
\* row gone.
SaveCommitHit(c) ==
    /\ pc[c] \in {"hit", "rehit"}
    /\ IF Stale(store, idmap[c])
       THEN /\ store' = store
            /\ Discard(c)
            /\ Finish(c, Raised("save", "StaleDataError", now))
       ELSE /\ store' = Committed(store, idmap[c], <<>>, nextId)
            /\ Flush(c)
            /\ Finish(c, Returned("save", Refreshed(store', out[c], nextId), now))
    /\ UNCHANGED <<nextId, now, db, req, args, left, nLookup, nInsert>>

\* Variant: the insert is tried again.
RetryInsert == "insert"

\* Where the call goes when the insert raised IntegrityError: to the
\* rollback and the second lookup.
AfterConflict == "conflict"

\* try: db.commit(); db.refresh(analysis); return analysis
\* except IntegrityError: db.rollback()
SaveCommitInsert(c) ==
    /\ pc[c] = "insert"
    /\ nInsert' = [nInsert EXCEPT ![c] = nInsert[c] + 1]
    /\ IF UniqueViolation(store, added[c], now)
       THEN /\ pc' = [pc EXCEPT ![c] = AfterConflict]
            /\ Discard(c)
            /\ UNCHANGED <<store, nextId, idmap, added, out, todo, ret>>
       ELSE /\ store' = Committed(store, {}, added[c], nextId)
            /\ nextId' = nextId + Len(added[c])
            /\ Flush(c)
            /\ Finish(c, Returned("save", Refreshed(store', out[c], nextId), now))
    /\ UNCHANGED <<now, db, req, args, left, nLookup>>

\* Variant: the second lookup does not see the winner's commit.
RelookupOwnSnapshot(rows, key, t) == {}

\* The rows the second lookup reads: after the rollback the session runs
\* the SELECT in a new transaction, which sees what is committed by then.
Relookup(rows, key, t) == Matching(rows, key, t)

\* The second lookup, in the except branch, after the rollback has dropped
\* the pending object; a miss raises the IntegrityError again.
SaveRelookup(c) ==
    /\ pc[c] = "conflict"
    /\ nLookup' = [nLookup EXCEPT ![c] = nLookup[c] + 1]
    /\ LET found == Relookup(store, req[c], now) IN
        IF Cardinality(found) > 1
        THEN Finish(c, Raised("save", "MultipleResultsFound", now))
        ELSE IF found = {}
        THEN Finish(c, Raised("save", "IntegrityError", now))
        ELSE LET r == CHOOSE r \in found : TRUE IN
             /\ pc' = [pc EXCEPT ![c] = "rehit"]
             /\ idmap' = [idmap EXCEPT ![c] = WithHit({}, r)]
             /\ out' = [out EXCEPT ![c] = << <<"old", r.id>> >>]
             /\ added' = [added EXCEPT ![c] = <<>>]
             /\ UNCHANGED <<todo, ret>>
    /\ NoFlush
    /\ UNCHANGED <<store, nextId, now, db, req, args, left, nInsert>>

\* ---------------------------------------- batch_create_literature_analyses
\* analysis_data["session_id"], ["analysis_type"], ["content_hash"]: the
\* lookup's arguments; a missing one raises KeyError before the SELECT.
LacksKey(e) == \E i \in 1..3 : e.key[i] = Absent

\* analysis_data["results"] and ["content_version"] are read only when the
\* new object is built.
LacksResults(e) == e.p.results = Absent

\* One turn of the loop over `analyses`: the lookup of entry e in session c,
\* then the in-memory increment of the row found, or a new object and
\* db.add().  autoflush is off: objects added earlier in the batch are not
\* in the store when the SELECT runs.
BatchEntry(c, e, rest) ==
    LET found == Matching(store, e.key, now) IN
    IF LacksKey(e) \/ (found = {} /\ LacksResults(e))
    THEN /\ Finish(c, Raised("batch_create", "KeyError", now))
         /\ Discard(c)
    ELSE IF Cardinality(found) > 1
    THEN /\ Finish(c, Raised("batch_create", "MultipleResultsFound", now))
         /\ Discard(c)
    ELSE /\ pc' = [pc EXCEPT ![c] = "batch"]
         /\ NoFlush
         /\ todo' = [todo EXCEPT ![c] = rest]
         /\ ret' = [ret EXCEPT ![c] = NoResult]
         /\ IF found # {}
            THEN LET r == CHOOSE r \in found : TRUE IN
                 /\ idmap' = [idmap EXCEPT ![c] = WithHit(idmap[c], r)]
                 /\ out' = [out EXCEPT ![c] = Append(out[c], <<"old", r.id>>)]
                 /\ added' = added
            ELSE /\ added' = [added EXCEPT ![c] = Append(added[c], NewBatchAnalysis(e.key, e.p, now))]
                 /\ out' = [out EXCEPT ![c] = Append(out[c], <<"new", Len(added[c]) + 1>>)]
                 /\ idmap' = idmap

BatchStart(c, entries) ==
    /\ entries # <<>>
    /\ Begin(c, NoKey, Len(entries))
    /\ nLookup' = [nLookup EXCEPT ![c] = 1]
    /\ nInsert' = [nInsert EXCEPT ![c] = 0]
    /\ args' = [args EXCEPT ![c] = entries]
    /\ BatchEntry(c, Head(entries), Tail(entries))
    /\ UNCHANGED <<store, nextId, now, db>>

BatchNext(c) ==
    /\ pc[c] = "batch"
    /\ todo[c] # <<>>
    /\ BatchEntry(c, Head(todo[c]), Tail(todo[c]))
    /\ nLookup' = [nLookup EXCEPT ![c] = nLookup[c] + 1]
    /\ UNCHANGED <<store, nextId, now, db, req, args, left, nInsert>>

\* Variant: the rollback keeps the hit counts the session had written.
RolledBackKeepingHits(rows, idm, news) == Committed(rows, idm, <<>>, 0)

\* The store after db.rollback() of a session that held the modified
\* objects idm and the added objects news: nothing of either is written.
RolledBack(rows, idm, news) == rows

\* db.commit() of the whole batch and the refresh of every object; any
\* exception rolls the session back and is raised again.  A flush sends the
\* UPDATEs of a table before its INSERTs.
BatchCommit(c) ==
    /\ pc[c] = "batch"
    /\ todo[c] = <<>>
    /\ nInsert' = [nInsert EXCEPT ![c] = Len(added[c])]
    /\ IF Stale(store, idmap[c])
       THEN /\ Finish(c, Raised("batch_create", "StaleDataError", now))
            /\ Discard(c)
            /\ store' = RolledBack(store, idmap[c], added[c])
            /\ UNCHANGED nextId
       ELSE IF UniqueViolation(store, added[c], now)
       THEN /\ Finish(c, Raised("batch_create", "IntegrityError", now))
            /\ Discard(c)
            /\ store' = RolledBack(store, idmap[c], added[c])
            /\ UNCHANGED nextId
       ELSE /\ store' = Committed(store, idmap[c], added[c], nextId)
            /\ nextId' = nextId + Len(added[c])
            /\ Flush(c)
            /\ Finish(c, Returned("batch_create", Refreshed(store', out[c], nextId), now))
    /\ UNCHANGED <<now, db, req, args, left, nLookup>>

\* --------------------------------------------------- batch_delete_analyses
\* The rows the DELETE statement removes; `given` is FALSE when analysis_ids
\* is None.  `if analysis_ids:` takes the session-wide branch for None and
\* for an empty list.
Deleted(rows, sid, given, ids) ==
    IF given /\ ids # {}
    THEN { r \in rows : r.session_id = sid /\ r.id \in ids }
    ELSE { r \in rows : r.session_id = sid }

\* The DELETE and its commit.
batch_delete_analyses(c, sid, given, ids) ==
    /\ Begin(c, NoKey, 1)
    /\ store' = store \ Deleted(store, sid, given, ids)
    /\ Finish(c, Count("batch_delete", Cardinality(Deleted(store, sid, given, ids)), now))
    /\ nLookup' = [nLookup EXCEPT ![c] = 0]
    /\ nInsert' = [nInsert EXCEPT ![c] = 0]
    /\ Flush(c)
    /\ UNCHANGED <<nextId, now, db, args>>

\* ----------------------------------------- get_literature_analysis_by_hash
\* result.scalar_one_or_none(): the row, None, or MultipleResultsFound.
get_literature_analysis_by_hash(c, key) ==
    /\ Begin(c, key, 1)
    /\ nLookup' = [nLookup EXCEPT ![c] = 1]
    /\ nInsert' = [nInsert EXCEPT ![c] = 0]
    /\ LET found == Matching(store, key, now) IN
        IF Cardinality(found) > 1
        THEN Finish(c, Raised("get", "MultipleResultsFound", now))
        ELSE IF found = {}
        THEN Finish(c, Returned("get", <<>>, now))
        ELSE Finish(c, Returned("get", << CHOOSE r \in found : TRUE >>, now))
    /\ NoFlush
    /\ UNCHANGED <<store, nextId, now, db, args>>

\* ------------------------------------------------------- math_steps, nodes
\* dict.get(key, default) on an item the caller passed.
Get(d, k, default) == IF k \in DOMAIN d THEN d[k] ELSE default

\* An element of a list argument that is not a dict (None, a string, a
\* model object): item.get(...) raises AttributeError on it.
IsDict(d) == "not_a_dict" \notin DOMAIN d

\* Variant: the order key is replaced by the item's position in the list.
NewStepRenumbered(sid, ver, items, i) ==
    [id |-> 0, session_id |-> sid, content_version |-> ver,
     step_order |-> i, step_content |-> Get(items[i], "step_content", "")]

\* MathStep(...) for the i-th item (the remaining columns are filled with
\* .get() like step_content).
NewStep(sid, ver, items, i) ==
    [id |-> 0, session_id |-> sid, content_version |-> ver,
     step_order |-> Get(items[i], "step_order", 0),
     step_content |-> Get(items[i], "step_content", "")]

\* LogicTreeNode(...) for the i-th item.
NewNode(sid, ver, items, i) ==
    [id |-> 0, session_id |-> sid, content_version |-> ver,
     node_id |-> Get(items[i], "node_id", ""),
     level |-> Get(items[i], "level", 0),
     depends_on |-> Get(items[i], "depends_on", NoneList),
     required_by |-> Get(items[i], "required_by", NoneList)]

\* The items the loop reaches: all of them, or those before the first
\* element that is not a dict.
Reached(items) ==
    IF \A i \in 1..Len(items) : IsDict(items[i])
    THEN Len(items)
    ELSE (CHOOSE i \in 1..Len(items) :
            ~ IsDict(items[i]) /\ \A j \in 1..(i - 1) : IsDict(items[j])) - 1

\* The rows, in the order of the list, that a commit wrote for objects
\* added after `before` earlier ones, ids from `first` on.
Written(rows, first, before, n) ==
    [i \in 1..n |-> CHOOSE r \in rows : r.id = first + before + i - 1]

\* save_math_steps: the loop builds and adds one object per item, then one
\* commit and the refreshes.  Nothing catches an error raised in the loop:
\* the objects added so far stay in the session.
save_math_steps(c, sid, ver, items) ==
    /\ items # <<>>
    /\ Begin(c, NoKey, Len(items))
    /\ args' = [args EXCEPT ![c] = items]
    /\ LET n == Reached(items)
           news == [i \in 1..n |-> NewStep(sid, ver, items, i)]
           pend == [pending[c] EXCEPT !.steps = pending[c].steps \o news]
       IN  IF n < Len(items)
           THEN /\ pending' = [pending EXCEPT ![c] = pend]
                /\ UNCHANGED <<steps, nodes, snaps, nextRowId>>
                /\ Finish(c, Raised("save_math_steps", "AttributeError", now))
           ELSE /\ FlushOf(c, pend)
                /\ Finish(c, Returned("save_math_steps",
                        Written(steps', nextRowId.math_steps, Len(pending[c].steps), n), now))
    /\ nLookup' = [nLookup EXCEPT ![c] = 0]
    /\ nInsert' = [nInsert EXCEPT ![c] = 0]
    /\ UNCHANGED <<store, nextId, now, db>>

\* save_logic_tree_nodes: the same loop over nodes.
save_logic_tree_nodes(c, sid, ver, items) ==
    /\ items # <<>>
    /\ Begin(c, NoKey, Len(items))
    /\ args' = [args EXCEPT ![c] = items]
    /\ LET n == Reached(items)
           news == [i \in 1..n |-> NewNode(sid, ver, items, i)]
           pend == [pending[c] EXCEPT !.nodes = pending[c].nodes \o news]
       IN  IF n < Len(items)
           THEN /\ pending' = [pending EXCEPT ![c] = pend]
                /\ UNCHANGED <<steps, nodes, snaps, nextRowId>>
                /\ Finish(c, Raised("save_logic_tree_nodes", "AttributeError", now))
           ELSE /\ FlushOf(c, pend)
                /\ Finish(c, Returned("save_logic_tree_nodes",
                        Written(nodes', nextRowId.logic_tree_nodes, Len(pending[c].nodes), n), now))
    /\ nLookup' = [nLookup EXCEPT ![c] = 0]
    /\ nInsert' = [nInsert EXCEPT ![c] = 0]
    /\ UNCHANGED <<store, nextId, now, db>>

\* The sequences that list every row of a set once.
Orderings(rows) ==
    { f \in [1..Cardinality(rows) -> rows] :
        \A i \in 1..Cardinality(rows), j \in 1..Cardinality(rows) : i # j => f[i] # f[j] }

\* The WHERE clause of get_math_steps and get_logic_tree_nodes; ver is Null
\* when content_version is None.
InScope(r, sid, ver) ==
    r.session_id = sid /\ (ver = Null \/ r.content_version = ver)

\* ORDER BY step_order: rows with equal keys come in any order.
StepOrder(f) == \A i \in 1..Len(f), j \in 1..Len(f) : i < j => f[i].step_order <= f[j].step_order

\* get_math_steps: one SELECT, no flush.
get_math_steps(c, sid, ver) ==
    /\ Begin(c, NoKey, 1)
    /\ \E f \in Orderings({ r \in steps : InScope(r, sid, ver) }) :
          /\ StepOrder(f)
          /\ Finish(c, Returned("get_math_steps", f, now))
    /\ nLookup' = [nLookup EXCEPT ![c] = 0]
    /\ nInsert' = [nInsert EXCEPT ![c] = 0]
    /\ NoFlush
    /\ UNCHANGED <<store, nextId, now, db, args>>

\* ORDER BY level, id.
\* Variant: ORDER BY level only.
LevelOnly(f) == \A i \in 1..Len(f), j \in 1..Len(f) : i < j => f[i].level <= f[j].level

LevelOrder(f) ==
    \A i \in 1..Len(f), j \in 1..Len(f) :
        i < j => \/ f[i].level < f[j].level
                 \/ f[i].level = f[j].level /\ f[i].id < f[j].id

\* get_logic_tree_nodes: one SELECT, no flush.
get_logic_tree_nodes(c, sid, ver) ==
    /\ Begin(c, NoKey, 1)
    /\ \E f \in Orderings({ r \in nodes : InScope(r, sid, ver) }) :
          /\ LevelOrder(f)
          /\ Finish(c, Returned("get_logic_tree_nodes", f, now))
    /\ nLookup' = [nLookup EXCEPT ![c] = 0]
    /\ nInsert' = [nInsert EXCEPT ![c] = 0]
    /\ NoFlush
    /\ UNCHANGED <<store, nextId, now, db, args>>

\* ------------------------------------------------- batch_update_math_steps
\* The caller's dict after update_data.pop("step_id").
Popped(e) == [k \in DOMAIN e \ {"step_id"} |-> e[k]]

\* for key, value in update_data.items():
\*     if hasattr(step, key): setattr(step, key, value)
Applied(step, upd) == [k \in DOMAIN step |-> IF k \in DOMAIN upd THEN upd[k] ELSE step[k]]

\* Variant: a target that does not exist falls on the stored steps.
FoundOrMissing(rows, id) == IF \E r \in rows : r.id = id THEN { r \in rows : r.id = id } ELSE rows

\* select(MathStep).where(MathStep.id == step_id)
StepById(rows, id) == { r \in rows : r.id = id }

\* The caller's list once the loop has popped the step_id of its first k
\* entries: the dicts are the caller's, the pop changes them.
AsItStands(lst, k) == [i \in 1..Len(lst) |-> IF i <= k THEN Popped(lst[i]) ELSE lst[i]]

\* One turn of the loop, k turns having been made: the pop, the SELECT
\* and, if the step exists, the setattr calls and the count.  A step loaded
\* twice is one object.  Any exception rolls back and is raised again.
PatchEntry(c, e, rest, k) ==
    IF "step_id" \notin DOMAIN e
    THEN /\ Finish(c, Raised("batch_update", "KeyError", now))
         /\ Discard(c)
         /\ nLookup' = [nLookup EXCEPT ![c] = k]
    ELSE LET found == StepById(steps, e.step_id) IN
         /\ pc' = [pc EXCEPT ![c] = "patch"]
         /\ todo' = [todo EXCEPT ![c] = rest]
         /\ nLookup' = [nLookup EXCEPT ![c] = k + 1]
         /\ ret' = [ret EXCEPT ![c] = NoResult]
         /\ UNCHANGED <<idmap, added, steps, nodes, snaps, nextRowId>>
         /\ IF found = {}
            THEN UNCHANGED <<pending, out>>
            ELSE LET r == CHOOSE r \in found : TRUE
                     o == Applied(Loaded(pending[c].patched, r), Popped(e))
                 IN  /\ pending' = [pending EXCEPT ![c].patched =
                                      { x \in @ : x.id # r.id } \cup {o}]
                     /\ out' = [out EXCEPT ![c] = Append(out[c], <<"old", r.id>>)]

\* The call and the first turn of its loop.
PatchStart(c, updates) ==
    /\ updates # <<>>
    /\ Begin(c, NoKey, Len(updates))
    /\ args' = [args EXCEPT ![c] = updates]
    /\ PatchEntry(c, Head(updates), Tail(updates), 0)
    /\ nInsert' = [nInsert EXCEPT ![c] = 0]
    /\ UNCHANGED <<store, nextId, now, db>>

PatchNext(c) ==
    /\ pc[c] = "patch"
    /\ todo[c] # <<>>
    /\ PatchEntry(c, Head(todo[c]), Tail(todo[c]), nLookup[c])
    /\ UNCHANGED <<store, nextId, now, db, req, args, left, nInsert>>

\* The caller hands the list of its last batch_update_math_steps call over
\* again: the same list object, its dicts as the call left them.
PatchRetry(c) ==
    /\ pc[c] = "idle"
    /\ ret[c].op = "batch_update"
    /\ PatchStart(c, AsItStands(args[c], nLookup[c]))

\* db.commit() and the count.
PatchCommit(c) ==
    /\ pc[c] = "patch"
    /\ todo[c] = <<>>
    /\ Flush(c)
    /\ Finish(c, Count("batch_update", Len(out[c]), now))
    /\ UNCHANGED <<store, nextId, now, db, req, args, left, nLookup, nInsert>>

\* ------------------------------------------------------------ debug_sessions
\* `value or []`: the value, or the empty list when it is None or empty.
OrEmpty(given, value) == IF given THEN value ELSE <<>>

\* DebugSession(...) (current_state, insights, warnings and next_actions
\* are defaulted like execution_trace).
NewSnapshot(sid, given, trace, t) ==
    [id |-> 0, session_id |-> sid, execution_trace |-> OrEmpty(given, trace), created_at |-> CreatedAt(t)]

\* db.add(debug_session) on top of what the session holds.
AddedSnapshot(pend, snap) == [pend EXCEPT !.snaps = Append(pend.snaps, snap)]

\* save_debug_session: one object, one commit, one refresh.
save_debug_session(c, sid, given, trace) ==
    /\ Begin(c, NoKey, 1)
    /\ FlushOf(c, AddedSnapshot(pending[c], NewSnapshot(sid, given, trace, now)))
    /\ Finish(c, Returned("save_debug_session",
            Written(snaps', nextRowId.debug_sessions, 0, 1), now))
    /\ nLookup' = [nLookup EXCEPT ![c] = 0]
    /\ nInsert' = [nInsert EXCEPT ![c] = 0]
    /\ UNCHANGED <<store, nextId, now, db, args>>

\* Variant: ORDER BY created_at, oldest first.
OldestFirst(f) == \A i \in 1..Len(f), j \in 1..Len(f) : i < j => f[i].created_at <= f[j].created_at

\* ORDER BY created_at DESC: rows created at the same time come in any order.
NewestFirst(f) == \A i \in 1..Len(f), j \in 1..Len(f) : i < j => f[i].created_at >= f[j].created_at

\* LIMIT n.
Limited(f, n) == SubSeq(f, 1, IF n < Len(f) THEN n ELSE Len(f))

\* get_debug_sessions: one SELECT, no flush.
get_debug_sessions(c, sid, limit) ==
    /\ Begin(c, NoKey, 1)
    /\ \E f \in Orderings({ r \in snaps : r.session_id = sid }) :
          /\ NewestFirst(f)
          /\ Finish(c, Returned("get_debug_sessions", Limited(f, limit), now))
    /\ nLookup' = [nLookup EXCEPT ![c] = 0]
    /\ nInsert' = [nInsert EXCEPT ![c] = 0]
    /\ NoFlush
    /\ UNCHANGED <<store, nextId, now, db, args>>

\* ---------------------------------------------- get_literature_analysis_list
\* The WHERE clause of the list: the session and, `if analysis_type:`, the
\* type; type is "" when analysis_type is None or empty.
Listed(rows, sid, type, t) ==
    { r \in rows : r.session_id = sid /\ (type = "" \/ r.analysis_type = type) }

\* get_literature_analysis_list: one SELECT, no flush.
get_literature_analysis_list(c, sid, type, limit) ==
    /\ Begin(c, <<sid, type, "">>, 1)
    /\ \E f \in Orderings(Listed(store, sid, type, now)) :
          /\ NewestFirst(f)
          /\ Finish(c, Returned("list", Limited(f, limit), now))
    /\ args' = [args EXCEPT ![c] = << [limit |-> limit] >>]
    /\ nLookup' = [nLookup EXCEPT ![c] = 0]
    /\ nInsert' = [nInsert EXCEPT ![c] = 0]
    /\ NoFlush
    /\ UNCHANGED <<store, nextId, now, db>>

\* ------------------------------------------------------------- the clock
Tick ==
    /\ now < MaxTime
    /\ now' = now + 1
    /\ NoFlush
    /\ UNCHANGED <<store, nextId, pc, req, idmap, added, out, todo, args, ret, left, nLookup, nInsert, db>>

\* -------------------------------------------------------- specifications
InitOf(cs) ==
    /\ store = {}
    /\ steps = {}
    /\ nodes = {}
    /\ snaps = {}
    /\ nextId = 1
    /\ nextRowId = [math_steps |-> 1, logic_tree_nodes |-> 1, debug_sessions |-> 1]
    /\ args = [c \in cs |-> <<>>]
    /\ pending = [c \in cs |-> NothingPending]
    /\ now = 0
    /\ pc = [c \in cs |-> "idle"]
    /\ req = [c \in cs |-> NoKey]
    /\ idmap = [c \in cs |-> {}]
    /\ added = [c \in cs |-> <<>>]
    /\ out = [c \in cs |-> <<>>]
    /\ todo = [c \in cs |-> <<>>]
    /\ ret = [c \in cs |-> NoResult]
    /\ nLookup = [c \in cs |-> 0]
    /\ nInsert = [c \in cs |-> 0]
    /\ db = [c \in cs |-> Yielded]

\* The general specification: the callers make MaxCalls requests in all,
\* in any interleaving of their statements, while the clock advances.
Init ==
    /\ InitOf(Callers)
    /\ left = MaxCalls

Next ==
    \/ \E c \in Callers, key \in Keys : SaveLookup(c, key, Payload1)
    \/ \E c \in Callers : SaveCommitHit(c)
    \/ \E c \in Callers : SaveCommitInsert(c)
    \/ \E c \in Callers : SaveRelookup(c)
    \/ \E c \in Callers, entries \in BatchLists : BatchStart(c, entries)
    \/ \E c \in Callers : BatchNext(c)
    \/ \E c \in Callers : BatchCommit(c)
    \/ \E c \in Callers, sid \in SessionIds, ids \in SUBSET (1..nextId) :
            batch_delete_analyses(c, sid, TRUE, ids)
    \/ \E c \in Callers, sid \in SessionIds : batch_delete_analyses(c, sid, FALSE, {})
    \/ Tick

Spec == Init /\ [][Next]_vars

\* Saves racing with each other, with deletes and with the clock; a call in
\* progress is resumed when the store answers its statement.
NextSave ==
    \/ \E c \in Callers, key \in Keys : SaveLookup(c, key, Payload1)
    \/ \E c \in Callers : SaveCommitHit(c)
    \/ \E c \in Callers : SaveCommitInsert(c)
    \/ \E c \in Callers : SaveRelookup(c)
    \/ \E c \in Callers, sid \in SessionIds, ids \in SUBSET (1..nextId) :
            batch_delete_analyses(c, sid, TRUE, ids)
    \/ \E c \in Callers, sid \in SessionIds : batch_delete_analyses(c, sid, FALSE, {})
    \/ Tick

Resume(c) == SaveCommitHit(c) \/ SaveCommitInsert(c) \/ SaveRelookup(c)

SpecSave == Init /\ [][NextSave]_vars /\ \A c \in Callers : WF_vars(Resume(c))

\* The race: NumRacers callers, each in its own session, each calling
\* save_literature_analysis once, within the hour.
InitRace ==
    /\ InitOf(Racers)
    /\ left = NumRacers

NextRace ==
    \/ \E c \in Racers, key \in RaceKeys, p \in Payloads :
            req[c] = NoKey /\ SaveLookup(c, key, p)
    \/ \E c \in Racers : SaveCommitHit(c)
    \/ \E c \in Racers : SaveCommitInsert(c)
    \/ \E c \in Racers : SaveRelookup(c)

SpecRace == InitRace /\ [][NextRace]_vars

\* Saves and lookups over keys that differ in each single component, while
\* rows expire.
InitLookup ==
    /\ InitOf(Callers)
    /\ left = MaxCalls

NextLookup ==
    \/ \E c \in Callers, key \in LookupKeys : SaveLookup(c, key, Payload1)
    \/ \E c \in Callers : SaveCommitHit(c)
    \/ \E c \in Callers : SaveCommitInsert(c)
    \/ \E c \in Callers : SaveRelookup(c)
    \/ \E c \in Callers, key \in LookupKeys : get_literature_analysis_by_hash(c, key)
    \/ Tick

SpecLookup == InitLookup /\ [][NextLookup]_vars

\* The clock between the calls of a session, not within one.
TickIdle ==
    /\ \A c \in DOMAIN pc : pc[c] = "idle"
    /\ Tick

\* One session, no other writer: saves, batches with entries of every
\* kind, and patches of a stored step, one call after the other.
InitSolo ==
    /\ InitOf(Session)
    /\ left = MaxCalls

NextBatch ==
    \/ \E c \in Session, key \in Keys : SaveLookup(c, key, Payload1)
    \/ \E c \in Session : SaveCommitHit(c)
    \/ \E c \in Session : SaveCommitInsert(c)
    \/ \E c \in Session, entries \in SoloBatchLists : BatchStart(c, entries)
    \/ \E c \in Session : BatchNext(c)
    \/ \E c \in Session : BatchCommit(c)
    \/ \E c \in Session : save_math_steps(c, "s1", 1, << Item1 >>)
    \/ \E c \in Session, updates \in SoloPatchLists : PatchStart(c, updates)
    \/ \E c \in Session : PatchNext(c)
    \/ \E c \in Session : PatchCommit(c)
    \/ TickIdle

SpecBatch == InitSolo /\ [][NextBatch]_vars

\* One session writing, patching and reading steps.
NextChild ==
    \/ \E c \in Session, ver \in Versions, items \in StepLists :
            save_math_steps(c, "s1", ver, items)
    \/ \E c \in Session, ver \in Versions \cup {Null} : get_math_steps(c, "s1", ver)
    \/ \E c \in Session, updates \in PatchLists : PatchStart(c, updates)
    \/ \E c \in Session : PatchNext(c)
    \/ \E c \in Session : PatchCommit(c)

SpecChild == InitSolo /\ [][NextChild]_vars

\* One session that uses every operation of the repository, one call
\* after the other.
NextSession ==
    \/ \E c \in Session, key \in Keys : SaveLookup(c, key, Payload1)
    \/ \E c \in Session : SaveCommitHit(c)
    \/ \E c \in Session : SaveCommitInsert(c)
    \/ \E c \in Session, entries \in BatchLists : BatchStart(c, entries)
    \/ \E c \in Session : BatchNext(c)
    \/ \E c \in Session : BatchCommit(c)
    \/ \E c \in Session, sid \in SessionIds, ids \in SUBSET (1..nextId) :
            batch_delete_analyses(c, sid, TRUE, ids)
    \/ \E c \in Session, sid \in SessionIds : batch_delete_analyses(c, sid, FALSE, {})
    \/ \E c \in Session, key \in Keys : get_literature_analysis_by_hash(c, key)
    \/ \E c \in Session : get_literature_analysis_list(c, "s1", "", 1)
    \/ \E c \in Session, items \in SessionStepLists : save_math_steps(c, "s1", 1, items)
    \/ \E c \in Session, items \in SessionNodeLists : save_logic_tree_nodes(c, "s1", 1, items)
    \/ \E c \in Session : get_math_steps(c, "s1", Null)
    \/ \E c \in Session : get_logic_tree_nodes(c, "s1", Null)
    \/ \E c \in Session, updates \in SessionPatchLists : PatchStart(c, updates)
    \/ \E c \in Session : PatchNext(c)
    \/ \E c \in Session : PatchCommit(c)
    \/ \E c \in Session, given \in BOOLEAN : save_debug_session(c, "s1", given, <<"e1">>)
    \/ \E c \in Session : get_debug_sessions(c, "s1", 1)

SpecSession == InitSolo /\ [][NextSession]_vars

\* One session from the yield of get_db to its close: the consumer saves
\* while it holds the session, then returns or raises.  Every step of
\* get_db is awaited code that runs, and a consumer ends.
NextDb ==
    \/ \E c \in Session, key \in Keys : AtYield(c) /\ SaveLookup(c, key, Payload1)
    \/ \E c \in Session : SaveCommitHit(c)
    \/ \E c \in Session : SaveCommitInsert(c)
    \/ \E c \in Session, ver \in Versions, items \in SessionStepLists :
            AtYield(c) /\ save_math_steps(c, "s1", ver, items)
    \/ \E c \in Session : ConsumerReturns(c)
    \/ \E c \in Session, e \in Thrown : ConsumerRaises(c, e)
    \/ \E c \in Session : DbCommit(c)
    \/ \E c \in Session : DbCommitFails(c)
    \/ \E c \in Session : DbRollback(c)
    \/ \E c \in Session : DbClose(c)

SpecDb == InitSolo /\ [][NextDb]_vars /\ WF_vars(NextDb)

\* Saved steps, patches of them and whole-batch retries of the patches.
NextRetry ==
    \/ \E c \in Session, items \in StepLists : save_math_steps(c, "s1", 1, items)
    \/ \E c \in Session, updates \in RetryLists : PatchStart(c, updates)
    \/ \E c \in Session : PatchNext(c)
    \/ \E c \in Session : PatchCommit(c)
    \/ \E c \in Session : PatchRetry(c)

SpecRetry == InitSolo /\ [][NextRetry]_vars

\* Saves of nodes in two sessions and two versions, and reads of them.
NextTree ==
    \/ \E c \in Session, sid \in SessionIds, ver \in Versions, items \in NodeLists :
            save_logic_tree_nodes(c, sid, ver, items)
    \/ \E c \in Session, ver \in Versions \cup {Null} : get_logic_tree_nodes(c, "s1", ver)

SpecTree == InitSolo /\ [][NextTree]_vars

\* Saves of several keys at several times, and lists of them.
NextList ==
    \/ \E c \in Session, key \in LookupKeys : SaveLookup(c, key, Payload1)
    \/ \E c \in Session : SaveCommitHit(c)
    \/ \E c \in Session : SaveCommitInsert(c)
    \/ \E c \in Session, sid \in SessionIds, type \in ListTypes, limit \in ListLimits :
            get_literature_analysis_list(c, sid, type, limit)
    \/ TickIdle

SpecList == InitSolo /\ [][NextList]_vars

\* ================================================================ claims
RowsOf(rows, key) == { r \in rows : KeyOf(r) = key }
Ids(rows) == { r.id : r \in rows }
Live(r, t) == r.expires_at = Null \/ r.expires_at > t
SavedOk(c) == pc[c] = "idle" /\ ret[c].op = "save" /\ ret[c].kind = "objs"
SaveEnded(c) == pc[c] = "idle" /\ ret[c].op = "save" /\ ret[c].kind # "none"

\* C1: when all N racers have saved the same key, which was not stored
\* before, the store holds exactly one row for that key and its
\* cache_hit_count is N-1.
C1_Original ==
    \A k \in RaceKeys :
        (\A c \in Racers : SaveEnded(c) /\ req[c] = k)
            => \E r \in store : /\ RowsOf(store, k) = {r}
                                /\ r.cache_hit_count = NumRacers - 1

\* C3: when exactly two racers have saved key k and every other racer a
\* key with another content_hash, the two saves returned the same row id,
\* the row's cache_hit_count is 1, and every other save returned another id.
C3_TwoSaversShareOneRow ==
    \A a \in Racers, b \in Racers :
        ( /\ a # b
          /\ \A c \in Racers : SaveEnded(c)
          /\ req[a] = req[b]
          /\ \A c \in Racers \ {a, b} : req[c] # req[a] /\ req[c][3] # req[a][3] )
        => /\ SavedOk(a) /\ SavedOk(b)
           /\ ret[a].objs[1].id = ret[b].objs[1].id
           /\ \E r \in store : /\ RowsOf(store, req[a]) = {r}
                               /\ r.id = ret[a].objs[1].id
                               /\ r.cache_hit_count = 1
           /\ \A c \in Racers \ {a, b} : SavedOk(c) /\ ret[c].objs[1].id # ret[a].objs[1].id

\* Two racers saved the same key, one of them after losing the insert race,
\* and a third saved another hash.
C3_Witness ==
    \E a \in Racers, b \in Racers, c \in Racers :
        /\ a # b /\ c # a /\ c # b
        /\ \A d \in Racers : SavedOk(d)
        /\ req[a] = req[b] /\ req[c] # req[a]
        /\ nLookup[b] = 2
        /\ ret[a].objs[1].id = ret[b].objs[1].id

\* C2: in every reachable state at most one row per business key has not
\* expired (expires_at null or in the future).
C2_OneLiveRowPerKey ==
    \A r1 \in store, r2 \in store :
        (KeyOf(r1) = KeyOf(r2) /\ Live(r1, now) /\ Live(r2, now)) => r1 = r2

\* An expired row and a live row of the same key, the live one created by a
\* batch, while another caller is in the middle of a call.
C2_Witness ==
    \E r1 \in store, r2 \in store :
        /\ KeyOf(r1) = KeyOf(r2)
        /\ ~ Live(r1, now)
        /\ r2.expires_at = Null
        /\ \E c \in Callers : pc[c] # "idle"

SavePcs == {"hit", "insert", "conflict", "rehit"}

\* The steps a save may take, with the lookups and insert attempts they count.
C4_Step(c) ==
    (pc[c] # pc'[c] /\ (pc[c] \in SavePcs \/ pc'[c] \in SavePcs)) =>
        \/ /\ pc[c] = "idle" /\ pc'[c] \in {"hit", "insert"}
           /\ nLookup'[c] = 1 /\ nInsert'[c] = 0
        \/ /\ pc[c] \in {"hit", "rehit"} /\ pc'[c] = "idle"
           /\ ret'[c].kind \in {"objs", "raised"}
           /\ nLookup'[c] = nLookup[c] /\ nInsert'[c] = nInsert[c]
        \/ /\ pc[c] = "insert" /\ pc'[c] = "idle"
           /\ ret'[c].kind = "objs" /\ Len(ret'[c].objs) = 1
           /\ nLookup'[c] = nLookup[c] /\ nInsert'[c] = nInsert[c] + 1
        \/ /\ pc[c] = "insert" /\ pc'[c] = "conflict"
           /\ store' = store
           /\ nLookup'[c] = nLookup[c] /\ nInsert'[c] = nInsert[c] + 1
        \/ /\ pc[c] = "conflict" /\ pc'[c] = "rehit"
           /\ nLookup'[c] = nLookup[c] + 1 /\ nInsert'[c] = nInsert[c]
        \/ /\ pc[c] = "conflict" /\ pc'[c] = "idle"
           /\ ret'[c].kind = "raised"
           /\ nLookup'[c] = nLookup[c] + 1 /\ nInsert'[c] = nInsert[c]

\* C4: a save goes Lookup -> AttemptInsert -> Inserted or Conflict, and from
\* Conflict through one rollback and one more lookup to HitResolved or
\* Fatal; it makes at most two lookups and at most one insert attempt, and
\* every save that has started ends, returning a record or raising.
C4_SaveStateMachine ==
    /\ [](\A c \in Callers : nLookup[c] <= 2 /\ nInsert[c] <= 1)
    /\ [][\A c \in Callers : C4_Step(c)]_vars
    /\ \A c \in Callers : (pc[c] \in SavePcs) ~> (pc[c] = "idle")

\* A save that lost the insert race, looked up once more and returned.
C4_Witness ==
    \E c \in Callers : SavedOk(c) /\ nLookup[c] = 2 /\ nInsert[c] = 1

C6_LookupFilter ==
    \A c \in Callers :
        (pc[c] = "idle" /\ ret[c].op = "get" /\ ret[c].kind = "objs")
            => \A i \in 1..Len(ret[c].objs) :
                  /\ ret[c].objs[i].session_id = req[c][1]
                  /\ ret[c].objs[i].analysis_type = req[c][2]
                  /\ ret[c].objs[i].content_hash = req[c][3]
                  /\ \/ ret[c].objs[i].expires_at = Null
                     \/ ret[c].objs[i].expires_at > ret[c].at

\* A lookup returned None for a key of which a row, expired by then, is
\* stored, while rows of the three neighbouring keys are stored unexpired.
C6_Witness ==
    \E c \in Callers, r \in store :
        /\ pc[c] = "idle" /\ ret[c].op = "get" /\ ret[c].kind = "objs"
        /\ ret[c].objs = <<>>
        /\ KeyOf(r) = req[c]
        /\ r.expires_at # Null /\ r.expires_at <= ret[c].at

\* A lookup returned a row while a row that differs from it in one key
\* component only is stored.
C6_WitnessHit ==
    \E c \in Callers, r \in store :
        /\ pc[c] = "idle" /\ ret[c].op = "get" /\ ret[c].kind = "objs"
        /\ Len(ret[c].objs) = 1
        /\ KeyOf(r) # req[c]
        /\ Live(r, ret[c].at)

\* Caller c takes the first step of a save.
SaveBegins(c) == pc[c] = "idle" /\ pc'[c] \in {"hit", "insert"}

\* C7: when every stored row of the key has expired, the first lookup of a
\* save misses and a new object is built, and its insert succeeds: the save
\* returns a row with a new id and cache_hit_count 0, and the store is the
\* old store, expired rows unchanged, plus that row.
C7_ExpiredRowNotReused ==
    [][\A c \in Callers :
        /\ ( /\ SaveBegins(c)
             /\ RowsOf(store, req'[c]) # {}
             /\ \A r \in RowsOf(store, req'[c]) : ~ Live(r, now) )
            => /\ pc'[c] = "insert"
               /\ Len(added'[c]) = 1
               /\ KeyOf(added'[c][1]) = req'[c]
               /\ added'[c][1].cache_hit_count = 0
        /\ ( /\ pc[c] = "insert" /\ pc'[c] # "insert"
             /\ RowsOf(store, req[c]) # {}
             /\ \A r \in RowsOf(store, req[c]) : ~ Live(r, now) )
            => /\ pc'[c] = "idle"
               /\ ret'[c].kind = "objs"
               /\ Len(ret'[c].objs) = 1
               /\ ret'[c].objs[1].id \notin Ids(store)
               /\ ret'[c].objs[1].cache_hit_count = 0
               /\ KeyOf(ret'[c].objs[1]) = req[c]
               /\ store' = store \cup { ret'[c].objs[1] }
      ]_vars

\* A save returned a new row with count 0 while an expired row of the same
\* key, never hit, stays stored.
C7_Witness ==
    \E c \in Callers, r \in store :
        /\ SavedOk(c) /\ nInsert[c] = 1
        /\ ret[c].objs[1] \in store
        /\ ret[c].objs[1].cache_hit_count = 0
        /\ r.id # ret[c].objs[1].id
        /\ KeyOf(r) = req[c]
        /\ r.expires_at # Null /\ r.expires_at <= ret[c].at

\* C8: when no row of the key is stored, the first lookup of a save misses
\* and builds one object with cache_hit_count 0 that expires TTL after now;
\* its insert, no row of the key having been stored meanwhile, adds exactly
\* that row, under a new id, and the save returns it.
C8_SaveCreatesOneRecord ==
    [][\A c \in Callers :
        /\ (SaveBegins(c) /\ RowsOf(store, req'[c]) = {})
            => /\ pc'[c] = "insert"
               /\ Len(added'[c]) = 1
               /\ KeyOf(added'[c][1]) = req'[c]
               /\ added'[c][1].cache_hit_count = 0
               /\ added'[c][1].expires_at = now + TTL
        /\ (pc[c] = "insert" /\ pc'[c] # "insert" /\ RowsOf(store, req[c]) = {})
            => /\ pc'[c] = "idle"
               /\ ret'[c].kind = "objs"
               /\ Len(ret'[c].objs) = 1
               /\ ret'[c].objs[1].id \notin Ids(store)
               /\ ret'[c].objs[1] = [added[c][1] EXCEPT !.id = ret'[c].objs[1].id]
               /\ store' = store \cup { ret'[c].objs[1] }
               /\ Cardinality(store') = Cardinality(store) + 1
      ]_vars

\* A save created the only row of its key: count 0, expiring TTL after the
\* save.
C8_Witness ==
    \E c \in Callers :
        /\ SavedOk(c) /\ nLookup[c] = 1 /\ nInsert[c] = 1
        /\ RowsOf(store, req[c]) = { ret[c].objs[1] }
        /\ ret[c].objs[1].cache_hit_count = 0
        /\ ret[c].objs[1].expires_at = ret[c].at + TTL

\* Caller c commits the hit of a save on row id.
HitCommitted(c, id) ==
    /\ pc[c] \in {"hit", "rehit"} /\ pc'[c] = "idle"
    /\ ret'[c].kind = "objs"
    /\ ret'[c].objs[1].id = id

\* C9 as claimed: the committed cache_hit_count of a row never decreases,
\* and every committed hit raises it by exactly 1.
C9_Original ==
    [][\A r \in store, r2 \in store' :
        (r2.id = r.id) =>
            /\ r2.cache_hit_count >= r.cache_hit_count
            /\ \A c \in Callers :
                  HitCommitted(c, r.id) => r2.cache_hit_count = r.cache_hit_count + 1
      ]_vars

\* C10: a step leaves every stored row in the store with all its attributes
\* but cache_hit_count unchanged, or the row is gone and the step is a
\* batch_delete_analyses.
C10_Frame ==
    [][\A r \in store :
        \/ \E r2 \in store' : r2 = [r EXCEPT !.cache_hit_count = r2.cache_hit_count]
        \/ /\ r.id \notin Ids(store')
           /\ \E c \in Callers, sid \in SessionIds, given \in BOOLEAN, ids \in SUBSET (1..nextId) :
                 batch_delete_analyses(c, sid, given, ids)
      ]_vars

\* A batch, whose entries all carry results r2, returned a stored row it hit
\* that keeps the results r1 and the expiry its save gave it.
C10_Witness ==
    \E c \in Callers :
        /\ pc[c] = "idle" /\ ret[c].op = "batch_create" /\ ret[c].kind = "objs"
        /\ \E i \in 1..Len(ret[c].objs) :
              /\ ret[c].objs[i].results = "r1"
              /\ ret[c].objs[i].content_version = 1
              /\ ret[c].objs[i].expires_at # Null
              /\ ret[c].objs[i].cache_hit_count >= 1
              /\ ret[c].objs[i] \in store

\* Caller c takes a step of a batch_create_literature_analyses it has begun.
BatchStep(c) == pc[c] = "batch" /\ (todo'[c] # todo[c] \/ pc'[c] # "batch")

\* An object the batch of caller c has added collides with a stored
\* unexpired row of its key or with another object of the batch.
BatchCollides(c) ==
    \E i \in 1..Len(added[c]) :
        \/ \E r \in RowsOf(store, KeyOf(added[c][i])) : Live(r, now)
        \/ \E j \in 1..Len(added[c]) : j # i /\ KeyOf(added[c][j]) = KeyOf(added[c][i])

\* C11: a batch_create_literature_analyses writes nothing before its commit;
\* a commit that meets a uniqueness violation raises, and a batch that
\* raises leaves the store as it is: no row of the batch, no hit count.  A
\* batch that returns has one stored row per entry.
C11_BatchAllOrNothing ==
    [][\A c \in Callers :
        BatchStep(c) =>
            /\ pc'[c] = "batch" => store' = store
            /\ (pc'[c] = "idle" /\ todo[c] = <<>> /\ BatchCollides(c))
                  => ret'[c].kind = "raised"
            /\ (pc'[c] = "idle" /\ ret'[c].kind = "raised")
                  => store' = store /\ nextId' = nextId
            /\ (pc'[c] = "idle" /\ ret'[c].kind = "objs")
                  => /\ Len(ret'[c].objs) = Len(args[c])
                     /\ \A i \in 1..Len(args[c]) :
                           /\ ret'[c].objs[i] \in store'
                           /\ KeyOf(ret'[c].objs[i]) = args[c][i].key
      ]_vars

\* A batch raised IntegrityError at its commit after it had counted a hit
\* on a stored row and added a new object: the row is stored with count 0.
C11_Witness ==
    \E c \in Callers :
        /\ pc[c] = "idle" /\ ret[c].op = "batch_create"
        /\ ret[c].kind = "raised" /\ ret[c].err = "IntegrityError"
        /\ nLookup[c] = Len(args[c])
        /\ nInsert[c] >= 1 /\ nInsert[c] < nLookup[c]
        /\ \E i \in 1..Len(args[c]) :
              \E r \in RowsOf(store, args[c][i].key) : r.cache_hit_count = 0

\* What save_literature_analysis, called for each entry in order at time t
\* with no other writer, leaves in the store.
RECURSIVE SavedInOrder(_, _, _, _)
SavedInOrder(rows, entries, t, first) ==
    IF entries = <<>> THEN rows
    ELSE LET e == Head(entries)
             found == Matching(rows, e.key, t)
         IN  IF found # {}
             THEN SavedInOrder(Committed(rows, WithHit({}, CHOOSE r \in found : TRUE), <<>>, first),
                               Tail(entries), t, first)
             ELSE SavedInOrder(Committed(rows, {}, << NewAnalysis(e.key, e.p, t) >>, first),
                               Tail(entries), t, first + 1)

KeyCounts(rows) == { <<r.id, KeyOf(r), r.cache_hit_count>> : r \in rows }
WellFormed(entries) == \A i \in 1..Len(entries) : ~ LacksKey(entries[i]) /\ ~ LacksResults(entries[i])

\* C12 as claimed: when a batch of well-formed entries ends, with no other
\* writer, the stored keys and their counts are those that saving each
\* entry in order leaves.
C12_Original ==
    [][\A c \in Session :
        (pc[c] = "batch" /\ pc'[c] = "idle" /\ WellFormed(args[c]))
            => KeyCounts(store') = KeyCounts(SavedInOrder(store, args[c], now, nextId))
      ]_vars

\* C13 as claimed: batch_delete_analyses with an id set, empty or not,
\* removes the rows of the session whose id is in the set, and returns
\* their number; without an id set it removes the rows of the session.
C13_Original ==
    [][\A c \in Callers, sid \in SessionIds, given \in BOOLEAN, ids \in SUBSET (1..nextId) :
        batch_delete_analyses(c, sid, given, ids) =>
            LET gone == IF given
                        THEN { r \in store : r.session_id = sid /\ r.id \in ids }
                        ELSE { r \in store : r.session_id = sid }
            IN  /\ store' = store \ gone
                /\ ret'[c].kind = "count"
                /\ ret'[c].count = Cardinality(gone)
      ]_vars

\* Caller c ends, in this step, a call of operation op.
Ends(c, op) == pc'[c] = "idle" /\ ret'[c].op = op /\ (pc[c] # "idle" \/ left' # left)

\* C19 as claimed: a batch_create_literature_analyses or
\* batch_update_math_steps whose list holds an entry that lacks a required
\* field ends in an error, and no step of it writes a row.
C19_Original ==
    [][\A c \in Session :
        /\ (Ends(c, "batch_create") /\ ~ WellFormed(args'[c]))
              => ret'[c].kind = "raised" /\ store' = store
        /\ (Ends(c, "batch_update") /\ \E i \in 1..Len(args'[c]) : "step_id" \notin DOMAIN args'[c][i])
              => ret'[c].kind = "raised" /\ steps' = steps
        /\ pc'[c] \in {"batch", "patch"} => store' = store /\ steps' = steps
      ]_vars

\* The entries of a list of updates whose target is stored.
Hits(lst, rows) == { i \in 1..Len(lst) : \E r \in rows : r.id = lst[i].step_id }

RECURSIVE PatchedBy(_, _)
PatchedBy(r, lst) ==
    IF lst = <<>> THEN r
    ELSE PatchedBy(IF Head(lst).step_id = r.id THEN Applied(r, Popped(Head(lst))) ELSE r,
                   Tail(lst))

C15_Original ==
    [][\A r \in steps :
        \E r2 \in steps' : /\ r2.id = r.id
                           /\ r2.session_id = r.session_id
                           /\ r2.content_version = r.content_version
      ]_vars

\* C16: when the session's last call was a save_math_steps that returned
\* and the stored steps of its scope are the ones it returned, a
\* get_math_steps of that scope returns as many steps as the list had items,
\* each saved step once, the i-th saved step carrying the step_order of the
\* i-th item, in non-decreasing step_order.
C16_SaveThenGet ==
    [][\A c \in Session, ver \in Versions :
        ( /\ get_math_steps(c, "s1", ver)
          /\ ret[c].op = "save_math_steps" /\ ret[c].kind = "objs"
          /\ { r \in steps : InScope(r, "s1", ver) } = { ret[c].objs[i] : i \in 1..Len(ret[c].objs) } )
        => /\ Len(ret'[c].objs) = Len(args[c])
           /\ { ret'[c].objs[i] : i \in 1..Len(ret'[c].objs) }
                = { ret[c].objs[i] : i \in 1..Len(ret[c].objs) }
           /\ \A i \in 1..Len(args[c]) :
                 "step_order" \in DOMAIN args[c][i]
                    => ret[c].objs[i].step_order = args[c][i].step_order
           /\ \A i \in 1..Len(ret'[c].objs), j \in 1..Len(ret'[c].objs) :
                 i < j => ret'[c].objs[i].step_order <= ret'[c].objs[j].step_order
      ]_vars

\* A get returned, lowest key first, the two steps of a save whose items
\* came with the order keys 3 and 1.
C16_Witness ==
    \E c \in Session :
        /\ pc[c] = "idle" /\ ret[c].op = "get_math_steps"
        /\ Len(args[c]) = 2 /\ Len(ret[c].objs) = 2
        /\ args[c][1] = [step_order |-> 3, step_content |-> "c1"]
        /\ args[c][2] = [step_order |-> 1, step_content |-> "c1"]
        /\ ret[c].objs[1].step_order = 1 /\ ret[c].objs[1].id = 2
        /\ ret[c].objs[2].step_order = 3 /\ ret[c].objs[2].id = 1

CacheOps == {"save", "batch_create", "batch_delete", "get", "list"}
ChildOps == {"save_math_steps", "save_logic_tree_nodes", "get_math_steps",
             "get_logic_tree_nodes", "batch_update", "save_debug_session",
             "get_debug_sessions"}

\* The step is one of a Result Cache call of caller c, or one of a call of
\* the child writer, the patcher or the trace store.
CacheStep(c) ==
    \/ pc'[c] \in SavePcs \cup {"batch"}
    \/ \E op \in CacheOps : Ends(c, op)
ChildStep(c) ==
    \/ pc'[c] = "patch"
    \/ \E op \in ChildOps : Ends(c, op)

\* C17: every step keeps every stored snapshot as it is; a
\* save_debug_session that returns adds exactly one snapshot, the one it
\* returns, and a step of any other operation leaves the snapshots alone.
C17_SnapshotsAppendOnly ==
    [][/\ \A r \in snaps : r \in snaps'
       /\ \A c \in Session :
             IF Ends(c, "save_debug_session")
             THEN /\ ret'[c].kind = "objs"
                  /\ snaps' = snaps \cup { ret'[c].objs[1] }
                  /\ ret'[c].objs[1].id \notin Ids(snaps)
             ELSE snaps' = snaps
      ]_vars

\* Two snapshots of session s1 are stored, the first with the trace it was
\* given and the second with the default, after a third call that was a
\* batch_delete_analyses of that session or a patch.
C17_Witness ==
    \E c \in Session :
        /\ pc[c] = "idle" /\ ret[c].op \in {"batch_delete", "batch_update"}
        /\ \E r1 \in snaps, r2 \in snaps :
              /\ r1.id = 1 /\ r1.session_id = "s1" /\ r1.execution_trace = <<"e1">>
              /\ r2.id = 2 /\ r2.session_id = "s1" /\ r2.execution_trace = <<>>

\* C18 as claimed: a step of the child writer, the patcher or the trace
\* store leaves literature_analyses as it is, and a step of the Result
\* Cache leaves math_steps, logic_tree_nodes and debug_sessions as they are.
C18_Original ==
    [][\A c \in Session :
        /\ ChildStep(c) => store' = store
        /\ CacheStep(c) => steps' = steps /\ nodes' = nodes /\ snaps' = snaps
      ]_vars

Smaller(a, b) == IF a < b THEN a ELSE b

\* C20: a list returns rows of the session, and of the type when one is
\* given, without repetition, newest created first; it returns `limit` of
\* them, or all when there are fewer, expired ones counted; and no row it
\* leaves out was created after one it returns.
C20_ListNewest ==
    [][\A c \in Session : Ends(c, "list") =>
        LET got == ret'[c].objs
            sid == req'[c][1]
            type == req'[c][2]
            limit == args'[c][1].limit
            match == { r \in store : r.session_id = sid
                                     /\ (type = "" \/ r.analysis_type = type) }
            gotSet == { got[i] : i \in 1..Len(got) }
        IN  /\ ret'[c].kind = "objs"
            /\ Len(got) <= limit
            /\ Len(got) = Smaller(limit, Cardinality(match))
            /\ gotSet \subseteq match
            /\ Cardinality(gotSet) = Len(got)
            /\ \A i \in 1..Len(got), j \in 1..Len(got) :
                  i < j => got[i].created_at >= got[j].created_at
            /\ \A g \in gotSet, r \in match \ gotSet : g.created_at >= r.created_at
      ]_vars

\* A list of type grammar with limit 1 returned the newer of the two
\* grammar rows of session s1; the older one has expired by then.
C20_Witness ==
    \E c \in Session :
        /\ pc[c] = "idle" /\ ret[c].op = "list" /\ ret[c].kind = "objs"
        /\ req[c] = <<"s1", "grammar", "">>
        /\ args[c] = << [limit |-> 1] >>
        /\ Len(ret[c].objs) = 1
        /\ \E r \in store :
              /\ r.session_id = "s1" /\ r.analysis_type = "grammar"
              /\ r.created_at < ret[c].objs[1].created_at
              /\ ~NotExpired(r, ret[c].at)

\* The place of row r in the sequence f, 0 when it is not in it.
PlaceIn(f, r) == IF \E i \in 1..Len(f) : f[i] = r
                 THEN CHOOSE i \in 1..Len(f) : f[i] = r ELSE 0

\* C21: a get_logic_tree_nodes of session s1 returns each stored node of
\* the session once, all versions when none is given and else the nodes of
\* that version, 0 included, by level and then by id; and when the
\* session's last call was a save that returned, its nodes carry the lists
\* of their items (None for a list the item lacks) and those of one level
\* come in the order of the items.
C21_NodesByLevelThenSupplied ==
    [][\A c \in Session, ver \in Versions \cup {Null} :
        get_logic_tree_nodes(c, "s1", ver) =>
          LET got == ret'[c].objs
              gotSet == { got[i] : i \in 1..Len(got) }
              saved == ret[c].objs
          IN  /\ gotSet = { r \in nodes : /\ r.session_id = "s1"
                                           /\ (ver # Null => r.content_version = ver) }
              /\ Cardinality(gotSet) = Len(got)
              /\ \A i \in 1..Len(got), j \in 1..Len(got) :
                    i < j => \/ got[i].level < got[j].level
                             \/ got[i].level = got[j].level /\ got[i].id < got[j].id
              /\ (ret[c].op = "save_logic_tree_nodes" /\ ret[c].kind = "objs") =>
                    /\ Len(saved) = Len(args[c])
                    /\ \A i \in 1..Len(saved) :
                          /\ saved[i] \in nodes
                          /\ saved[i].depends_on =
                                (IF "depends_on" \in DOMAIN args[c][i]
                                 THEN args[c][i].depends_on ELSE NoneList)
                          /\ saved[i].required_by =
                                (IF "required_by" \in DOMAIN args[c][i]
                                 THEN args[c][i].required_by ELSE NoneList)
                    /\ \A i \in 1..Len(saved), j \in 1..Len(saved) :
                          ( /\ i < j /\ saved[i] \in gotSet
                            /\ saved[i].level = saved[j].level )
                          => PlaceIn(got, saved[i]) < PlaceIn(got, saved[j])
      ]_vars

\* A get of version 0 returned the two nodes of a save of that version,
\* both of level 1, in the order of the list: n2, which depends on n1 and is
\* required by a node nobody saved, then n1, which depends on n2.
C21_Witness ==
    \E c \in Session :
        /\ pc[c] = "idle" /\ ret[c].op = "get_logic_tree_nodes"
        /\ Len(args[c]) = 2 /\ args[c][1].node_id = "n2" /\ args[c][2].node_id = "n1"
        /\ Len(ret[c].objs) = 2
        /\ ret[c].objs[1].node_id = "n2" /\ ret[c].objs[1].id = 1
        /\ ret[c].objs[1].depends_on = <<"n1">> /\ ret[c].objs[1].required_by = <<"n9">>
        /\ ret[c].objs[2].node_id = "n1" /\ ret[c].objs[2].id = 2
        /\ ret[c].objs[2].depends_on = <<"n2">>
        /\ ret[c].objs[1].content_version = 0

\* C22 as claimed: handing the list of a batch_update_math_steps call over
\* again is a first call on the list as it was given.
C22_Original ==
    [][\A c \in Session : PatchRetry(c) => PatchStart(c, args[c])]_vars

\* C23 as claimed: the lookup of a save hits exactly when a row of its key
\* is stored that was created, by a save or by a batch, less than TTL ago.
C23_Original ==
    [][\A c \in Session :
        (pc[c] = "idle" /\ pc'[c] \in {"hit", "insert"}) =>
            (pc'[c] = "hit" <=>
                \E r \in store : KeyOf(r) = req'[c] /\ now < r.created_at + TTL)
      ]_vars
Done(c) == db[c].at = "done"
Logged(c, event) == \E i \in 1..Len(db[c].log) : db[c].log[i] = event

\* C24 as claimed: a session that has ended was closed last; when its
\* consumer returned it was committed, not rolled back, and nothing
\* propagates; when its consumer raised, no commit was attempted and what
\* the consumer raised propagates.
C24_Original ==
    \A c \in Session : Done(c) =>
        /\ db[c].log[Len(db[c].log)] = "close"
        /\ Logged(c, "returned") =>
              Logged(c, "commit") /\ ~ Logged(c, "rollback") /\ db[c].exc = ""
        /\ Logged(c, "raised") =>
              /\ ~ Logged(c, "commit") /\ ~ Logged(c, "commit failed")
              /\ db[c].exc \in Thrown

\* C24, amended: a session is never committed after its consumer raised;
\* one that has ended went one of four ways, closed last and with nothing
\* left unflushed: returned and committed; returned, commit refused, rolled
\* back, the commit's exception propagates; an Exception raised, rolled
\* back, it propagates; a CancelledError raised, closed without a rollback
\* of its own, it propagates.  And every session ends.
C24_Amended ==
    /\ [](\A c \in Session :
            /\ Logged(c, "commit") => db[c].log[1] = "returned"
            /\ Done(c) =>
                  /\ pending[c] = NothingPending
                  /\ \/ db[c].log = <<"returned", "commit", "close">> /\ db[c].exc = ""
                     \/ /\ db[c].log = <<"returned", "commit failed", "rollback", "close">>
                        /\ db[c].exc = CommitError
                     \/ /\ db[c].log = <<"raised", "rollback", "close">>
                        /\ db[c].exc = "AttributeError"
                     \/ db[c].log = <<"raised", "close">> /\ db[c].exc = "CancelledError")
    /\ \A c \in Session : <>Done(c)

\* A consumer caught the AttributeError of a save_math_steps and returned;
\* the commit was refused: the session ended rolled back and closed, the
\* commit's exception propagates and the step the save left in the session
\* was not stored.
C24_Witness ==
    \E c \in Session :
        /\ Done(c)
        /\ db[c].log = <<"returned", "commit failed", "rollback", "close">>
        /\ db[c].exc = CommitError
        /\ ret[c].op = "save_math_steps" /\ ret[c].kind = "raised"
        /\ steps = {}
====
